---- MODULE Spec2Model ----
(***************************************************************************)
(* Community-Feed: the like ledger, the comment threads, the leaderboard.  *)
(*                                                                         *)
(* The store holds the four tables of community/models.py.  Concurrent     *)
(* request handlers run the views of community/views.py against it.  Every *)
(* ORM call of a handler is one step of the handler's process; the         *)
(* statements of a transaction.atomic() block write to a private working   *)
(* copy that becomes the store when the block exits normally and is thrown *)
(* away when an exception leaves the block.                                *)
(*                                                                         *)
(* Spec            handlers serving toggles of the feed's posts, comments  *)
(* SpecAny         the same handlers with arbitrary target_type, target_id *)
(* SpecRace        every handler holds the same toggle, no likes stored    *)
(* SpecCrowd       every handler holds the like of a different user        *)
(* SpecUnlikeRace  every handler holds the second toggle of one user       *)
(* SpecThreads     comment creations and post-detail fetches               *)
(* SpecThreadsSeq  the same, with creations that run one after the other   *)
(* SpecLeaderboard leaderboard calls on the ledgers that likes leave       *)
(* SpecDetail      post-detail fetches of threads with likes               *)
(* SpecReconcile   the seed command's recompute loop on drifted counters   *)
(* SpecFeed        all of these operations on one store                    *)
(***************************************************************************)
EXTENDS Integers, FiniteSets, Sequences, TLC

(***************************************************************************)
(* Bounds of the model: concurrent handlers, users, and requests received  *)
(* in one behaviour.                                                       *)
(***************************************************************************)
NumProcs == 2
NumUsers == 2
MaxRequests == 3

Procs == 1..NumProcs
Users == 1..NumUsers

(***************************************************************************)
(* The content the handlers work on: one post written by user 1 and one    *)
(* comment on it written by user 2, so that every user has a target of     *)
(* their own and a target of somebody else.                                *)
(***************************************************************************)
PostIds == {1}
CommentIds == {1}

TargetTypes == {"post", "comment"}
\* the posts and comments of the feed
Targets == ({"post"} \X PostIds) \cup ({"comment"} \X CommentIds)
\* request.data values a client can send
TargetTypeInputs == {"post", "comment", "user"}
TargetIdInputs == {0, 1, 2}

Max(S) == CHOOSE x \in S : \A y \in S : y <= x

\* The pk a new row gets: one more than the largest pk of the table.
NextId(rows) == IF rows = {} THEN 1 ELSE Max({r.id : r \in rows}) + 1

(***************************************************************************)
(* Strings.  Comment.path is a TextField holding the decimal ids of the    *)
(* comment's ancestors and its own, joined by dots.  A string is the       *)
(* sequence of its characters; the store compares strings character by     *)
(* character on their codes (sqlite3 compares TEXT bytewise), a proper     *)
(* prefix before its extensions.                                           *)
(***************************************************************************)
DigitChars == <<"0", "1", "2", "3", "4", "5", "6", "7", "8", "9">>

\* the character code: '.' is 46, the digits '0'..'9' are 48..57
Ord(c) == IF c = "." THEN 46 ELSE 47 + (CHOOSE i \in 1..10 : DigitChars[i] = c)

RECURSIVE Str(_)
\* str(pk), f"{pk}": the decimal digits of a non-negative integer
Str(n) ==
    IF n < 10 THEN <<DigitChars[n + 1]>>
    ELSE Str(n \div 10) \o <<DigitChars[(n % 10) + 1]>>

\* path = models.TextField(default='')
EmptyPath == <<>>

\* self.path = str(self.pk)
RootPath(pk) == Str(pk)

\* self.path = f"{self.parent.path}.{self.pk}"
ChildPath(parent_path, pk) == parent_path \o <<".">> \o Str(pk)

StrLess_LongerFirst(a, b) == Len(a) > Len(b)

\* a < b in the order of ORDER BY path
StrLess(a, b) ==
    \E i \in 1..Len(b) :
        /\ \A j \in 1..(i - 1) : j <= Len(a) /\ a[j] = b[j]
        /\ (i > Len(a) \/ Ord(a[i]) < Ord(b[i]))

(***************************************************************************)
(* models.py: the tables.  db.Post and db.Comment map a pk to the row,     *)
(* db.Like and db.KarmaEvent are sets of rows, each row with its own pk.   *)
(***************************************************************************)
InitDb ==
    [ Post       |-> [i \in PostIds |-> [author |-> 1, like_count |-> 0]],
      Comment    |-> [i \in CommentIds |->
                         [author |-> 2, post |-> 1, parent |-> 0, path |-> RootPath(i),
                          depth |-> 0, like_count |-> 0]],
      Like       |-> {},
      KarmaEvent |-> {} ]

\* Post.objects.get(pk=..) / Comment.objects.get(pk=..) raising DoesNotExist
TargetExists(d, tt, tid) ==
    IF tt = "post" THEN tid \in DOMAIN d.Post ELSE tid \in DOMAIN d.Comment

TargetRow(d, tt, tid) == IF tt = "post" THEN d.Post[tid] ELSE d.Comment[tid]

TargetAuthor(d, tt, tid) == TargetRow(d, tt, tid).author

LikeCount(d, tt, tid) == TargetRow(d, tt, tid).like_count

KarmaAmount_Flat(tt) == 5

KarmaAmount(tt) == IF tt = "post" THEN 5 ELSE 1

AwardsKarma_Always(target_author, user) == TRUE

\* "Don't award self-karma": if target_author != request.user
AwardsKarma(target_author, user) == target_author # user

KarmaReason(tt) == IF tt = "post" THEN "post_like" ELSE "comment_like"

\* Like.objects.filter(user=, target_type=, target_id=)
LikesOf(d, u, tt, tid) ==
    {l \in d.Like : l.user = u /\ l.target_type = tt /\ l.target_id = tid}

\* Like.objects.filter(target_type=, target_id=)
LikesOn(d, tt, tid) ==
    {l \in d.Like : l.target_type = tt /\ l.target_id = tid}

\* .first() of an unordered queryset orders by pk; 0 stands for None
FirstLike(rows) ==
    IF rows = {} THEN 0
    ELSE (CHOOSE l \in rows : \A m \in rows : l.id <= m.id).id

UniqueViolation_Off(d, u, tt, tid) == FALSE

\* unique_together = ('user', 'target_type', 'target_id')
UniqueViolation(d, u, tt, tid) == LikesOf(d, u, tt, tid) # {}

\* Like.objects.create(user=, target_type=, target_id=)
InsertLike(d, u, tt, tid) ==
    [d EXCEPT !.Like = @ \cup
        {[id |-> NextId(@), user |-> u, target_type |-> tt, target_id |-> tid]}]

\* existing_like.delete(): DELETE ... WHERE id = pk
DeleteLike(d, pk) == [d EXCEPT !.Like = {l \in @ : l.id # pk}]

\* KarmaEvent.objects.create(...); created_at is the insertion stamp
CreateKarmaEvent(d, u, amount, reason, tt, tid) ==
    [d EXCEPT !.KarmaEvent = @ \cup
        {[id |-> NextId(@), user |-> u, amount |-> amount, reason |-> reason,
          related_type |-> tt, related_id |-> tid, created_at |-> NextId(@)]}]

\* KarmaEvent.objects.filter(user=, reason=, related_type=, related_id=)
MatchingKarma(d, u, reason, tt, tid) ==
    {k \in d.KarmaEvent : k.user = u /\ k.reason = reason
                          /\ k.related_type = tt /\ k.related_id = tid}

\* KarmaEvent.objects.filter(related_type=, related_id=)
KarmaOn(d, tt, tid) ==
    {k \in d.KarmaEvent : k.related_type = tt /\ k.related_id = tid}

\* .order_by('-created_at')[:1]
MostRecent(rows) ==
    IF rows = {} THEN {}
    ELSE {CHOOSE k \in rows : \A m \in rows : m.created_at <= k.created_at}

UpdateLikeCount_Overwrite(d, tt, tid, delta) ==
    IF tt = "post"
    THEN [d EXCEPT !.Post[tid].like_count = delta]
    ELSE [d EXCEPT !.Comment[tid].like_count = delta]

UpdateLikeCount_BothTables(d, tt, tid, delta) ==
    [d EXCEPT !.Post = [i \in DOMAIN @ |->
                           IF i = tid THEN [@[i] EXCEPT !.like_count = @ + delta]
                           ELSE @[i]],
              !.Comment = [i \in DOMAIN @ |->
                              IF i = tid THEN [@[i] EXCEPT !.like_count = @ + delta]
                              ELSE @[i]]]

UpdateLikeCount_PostOnly(d, tt, tid, delta) ==
    IF tt = "post" THEN [d EXCEPT !.Post[tid].like_count = @ + delta] ELSE d

\* update(like_count=F('like_count') + delta) on the row of the target
UpdateLikeCount(d, tt, tid, delta) ==
    IF tt = "post"
    THEN [d EXCEPT !.Post[tid].like_count = @ + delta]
    ELSE [d EXCEPT !.Comment[tid].like_count = @ + delta]

\* PositiveIntegerField: the column carries CHECK (like_count >= 0)
CheckViolation(d, tt, tid) == LikeCount(d, tt, tid) < 0

(***************************************************************************)
(* views.py 292-297: ...order_by('-created_at')[:1].delete().  Django's    *)
(* QuerySet.delete() refuses a sliced queryset ("Cannot use 'limit' or     *)
(* 'offset' with delete()"): the call raises before any row is deleted.    *)
(* The result tells whether the call raised and gives the tables after it. *)
(***************************************************************************)
SlicedDelete_Deletes(d, rows) ==
    [raised |-> FALSE, db |-> [d EXCEPT !.KarmaEvent = @ \ rows]]

SlicedDelete(d, rows) == [raised |-> TRUE, db |-> d]

(***************************************************************************)
(* Responses.                                                              *)
(***************************************************************************)
NoResp ==
    [code |-> 0, status |-> "none", target_type |-> "none", target_id |-> 0,
     is_liked |-> FALSE, exc |-> "none"]
\* Response({'error': ...}, status=code)
ErrorResp(code) == [NoResp EXCEPT !.code = code, !.status = "error"]
\* an exception that leaves the view: the framework answers 500
Uncaught(exc) == [NoResp EXCEPT !.code = 500, !.status = "error", !.exc = exc]
ToggleResp_NotLiked(status, tt, tid, liked) ==
    [code |-> 200, status |-> status, target_type |-> tt, target_id |-> tid,
     is_liked |-> FALSE, exc |-> "none"]

\* Response({'status':, 'target_type':, 'target_id':, 'is_liked':}), status 200
ToggleResp(status, tt, tid, liked) ==
    [code |-> 200, status |-> status, target_type |-> tt, target_id |-> tid,
     is_liked |-> liked, exc |-> "none"]

AlreadyLiked_Raises(tt, tid) == Uncaught("IntegrityError")

\* except IntegrityError: the answer of the request that lost the insert race
AlreadyLiked(tt, tid) == ToggleResp("already_liked", tt, tid, TRUE)

\* Post.DoesNotExist / Comment.DoesNotExist: status=404
NotFound == ErrorResp(404)

NoReq == [user |-> 0, target_type |-> "none", target_id |-> 0]
NoTxn == [owner |-> 0, work |-> InitDb]
NoPair == [stage |-> 0, user |-> 0, target_type |-> "none", target_id |-> 0,
           like_count |-> 0, karma |-> {}]

VARIABLES
    db,             \* the committed store
    txn,            \* the open write transaction: its owner and working copy
    pc,             \* each handler's position in LikeToggleView.post
    req,            \* each handler's request: request.user, request.data
    existing_like,  \* each handler's existing_like (pk, 0 for None)
    resp,           \* each handler's last response
    requests,       \* the number of requests received so far
    pair            \* history: a like directly followed by a toggle of the same user and target

vars == <<db, txn, pc, req, existing_like, resp, requests, pair>>

Init ==
    /\ db = InitDb
    /\ txn = NoTxn
    /\ pc = [p \in Procs |-> "idle"]
    /\ req = [p \in Procs |-> NoReq]
    /\ existing_like = [p \in Procs |-> 0]
    /\ resp = [p \in Procs |-> NoResp]
    /\ requests = 0
    /\ pair = NoPair

InFlight(p) == pc[p] # "idle"

Quiescent == \A p \in Procs : ~InFlight(p)

(***************************************************************************)
(* History kept for the like-then-unlike round trip: stage 1 while a like  *)
(* that started on a quiet store runs, 2 once it answered 'liked', 3 while *)
(* the next request (same user, same target, nothing in between) runs,     *)
(* 4 once that one has answered.  like_count and karma are the values of   *)
(* the target's counter and of the karma table before the first toggle.    *)
(***************************************************************************)
PairOnBegin(u, tt, tid) ==
    IF Quiescent /\ pair.stage = 2 /\ pair.user = u
       /\ pair.target_type = tt /\ pair.target_id = tid
    THEN [pair EXCEPT !.stage = 3]
    ELSE IF Quiescent /\ tt \in TargetTypes /\ tid # 0 /\ TargetExists(db, tt, tid)
            /\ LikesOf(db, u, tt, tid) = {}
    THEN [stage |-> 1, user |-> u, target_type |-> tt, target_id |-> tid,
          like_count |-> LikeCount(db, tt, tid), karma |-> db.KarmaEvent]
    ELSE NoPair

PairOnFinish(r) ==
    IF pair.stage = 1
    THEN IF r.status = "liked" THEN [pair EXCEPT !.stage = 2] ELSE NoPair
    ELSE IF pair.stage = 3
    THEN IF r.exc = "OperationalError" THEN NoPair ELSE [pair EXCEPT !.stage = 4]
    ELSE pair

\* the handler returns r
Finish(p, r) ==
    /\ pc' = [pc EXCEPT ![p] = "idle"]
    /\ resp' = [resp EXCEPT ![p] = r]
    /\ existing_like' = [existing_like EXCEPT ![p] = 0]
    /\ req' = [req EXCEPT ![p] = NoReq]
    /\ pair' = PairOnFinish(r)

\* the handler goes on to the statement at label
Goto(p, label) ==
    /\ pc' = [pc EXCEPT ![p] = label]
    /\ UNCHANGED <<req, resp, existing_like, pair>>

\* the atomic block exits normally: COMMIT
Commit(work) ==
    /\ db' = work
    /\ txn' = NoTxn

Rollback_KeepsWork ==
    /\ db' = IF txn.owner # 0 THEN txn.work ELSE db
    /\ txn' = NoTxn

\* an exception leaves the atomic block: ROLLBACK
Rollback ==
    /\ db' = db
    /\ txn' = NoTxn

(***************************************************************************)
(* views.py 240-242: handler p receives the request of authenticated user  *)
(* u with request.data = {target_type: tt, target_id: tid}.                *)
(***************************************************************************)
Receive(p, u, tt, tid) ==
    /\ pc[p] = "idle"
    /\ requests < MaxRequests
    /\ requests' = requests + 1
    /\ req' = [req EXCEPT ![p] =
                  [user |-> u, target_type |-> tt, target_id |-> tid]]
    /\ pair' = PairOnBegin(u, tt, tid)
    /\ pc' = [pc EXCEPT ![p] = "validate"]
    /\ resp' = [resp EXCEPT ![p] = NoResp]
    /\ UNCHANGED <<db, txn, existing_like>>

\* a user toggles the like of a post or comment of the feed
Begin(p) ==
    \E u \in Users, t \in Targets : Receive(p, u, t[1], t[2])

\* a client sends any target_type and target_id
BeginAny(p) ==
    \E u \in Users, tt \in TargetTypeInputs, tid \in TargetIdInputs :
        Receive(p, u, tt, tid)

(***************************************************************************)
(* views.py 244-265: validation of the request and the target lookup.      *)
(***************************************************************************)
Validate(p) ==
    /\ UNCHANGED requests
    /\ pc[p] = "validate"
    /\ LET tt == req[p].target_type
           tid == req[p].target_id
       IN IF tt \notin TargetTypes
          THEN Finish(p, ErrorResp(400))
          ELSE IF tid = 0
          THEN Finish(p, ErrorResp(400))
          ELSE IF ~TargetExists(db, tt, tid)
          THEN Finish(p, NotFound)
          ELSE Goto(p, "check")
    /\ UNCHANGED <<db, txn>>

(***************************************************************************)
(* views.py 267-274, 305: the optimistic existence check, outside any      *)
(* transaction, and the branch on it.                                      *)
(***************************************************************************)
CheckExisting(p) ==
    /\ UNCHANGED requests
    /\ pc[p] = "check"
    /\ LET found == FirstLike(LikesOf(db, req[p].user, req[p].target_type,
                                      req[p].target_id))
       IN /\ existing_like' = [existing_like EXCEPT ![p] = found]
          /\ pc' = [pc EXCEPT ![p] =
                       IF found # 0 THEN "unlike_delete" ELSE "like_create"]
    /\ UNCHANGED <<db, txn, req, resp, pair>>

(***************************************************************************)
(* views.py 307-313, 330-337: the atomic block opens and the Like row is   *)
(* inserted.  The store has one writer at a time (sqlite3, settings.py     *)
(* 57-62): the insert waits while another handler's transaction is open.   *)
(* A row with the same key makes the insert raise IntegrityError, which    *)
(* the view catches.                                                       *)
(***************************************************************************)
LikeCreate(p) ==
    /\ UNCHANGED requests
    /\ pc[p] = "like_create"
    /\ txn.owner = 0
    /\ IF UniqueViolation(db, req[p].user, req[p].target_type, req[p].target_id)
       THEN /\ Rollback
            /\ Finish(p, AlreadyLiked(req[p].target_type, req[p].target_id))
       ELSE /\ txn' = [owner |-> p,
                       work |-> InsertLike(db, req[p].user, req[p].target_type,
                                           req[p].target_id)]
            /\ db' = db
            /\ Goto(p, "like_karma")

(***************************************************************************)
(* views.py 314-323: karma for the target's author, unless it is the liker.*)
(***************************************************************************)
LikeKarma(p) ==
    /\ UNCHANGED requests
    /\ pc[p] = "like_karma"
    /\ txn.owner = p
    /\ LET tt == req[p].target_type
           tid == req[p].target_id
           target_author == TargetAuthor(db, tt, tid)
       IN txn' = [txn EXCEPT !.work =
                     IF AwardsKarma(target_author, req[p].user)
                     THEN CreateKarmaEvent(@, target_author, KarmaAmount(tt),
                                           KarmaReason(tt), tt, tid)
                     ELSE @]
    /\ Goto(p, "like_count")
    /\ db' = db

(***************************************************************************)
(* views.py 324-328, 339-344: the counter is incremented in the store, the *)
(* atomic block exits and the view answers 'liked'.                        *)
(***************************************************************************)
LikeIncrement(p) ==
    /\ UNCHANGED requests
    /\ pc[p] = "like_count"
    /\ txn.owner = p
    /\ Commit(UpdateLikeCount(txn.work, req[p].target_type, req[p].target_id, 1))
    /\ Finish(p, ToggleResp("liked", req[p].target_type, req[p].target_id, TRUE))

(***************************************************************************)
(* views.py 276-277: the atomic block opens and existing_like is deleted   *)
(* by pk (no row is deleted, and nothing raised, when it is already gone). *)
(***************************************************************************)
UnlikeDelete(p) ==
    /\ UNCHANGED requests
    /\ pc[p] = "unlike_delete"
    /\ txn.owner = 0
    /\ txn' = [owner |-> p, work |-> DeleteLike(db, existing_like[p])]
    /\ Goto(p, "unlike_count")
    /\ db' = db

(***************************************************************************)
(* views.py 279-290: a karma lookup whose result is dropped, then the      *)
(* counter is decremented; a negative value violates the column's CHECK    *)
(* and the IntegrityError leaves the view.                                 *)
(***************************************************************************)
UnlikeDecrement(p) ==
    /\ UNCHANGED requests
    /\ pc[p] = "unlike_count"
    /\ txn.owner = p
    /\ LET work == UpdateLikeCount(txn.work, req[p].target_type,
                                   req[p].target_id, -1)
       IN IF CheckViolation(work, req[p].target_type, req[p].target_id)
          THEN /\ Rollback
               /\ Finish(p, Uncaught("IntegrityError"))
          ELSE /\ txn' = [txn EXCEPT !.work = work]
               /\ db' = db
               /\ Goto(p, "unlike_karma")

(***************************************************************************)
(* views.py 291-304: delete() on the sliced karma queryset, the end of the *)
(* atomic block and the 'unliked' answer.                                  *)
(***************************************************************************)
UnlikeKarma(p) ==
    /\ UNCHANGED requests
    /\ pc[p] = "unlike_karma"
    /\ txn.owner = p
    /\ LET tt == req[p].target_type
           tid == req[p].target_id
           qs == MostRecent(MatchingKarma(txn.work, TargetAuthor(db, tt, tid),
                                          KarmaReason(tt), tt, tid))
           res == SlicedDelete(txn.work, qs)
       IN IF res.raised
          THEN /\ Rollback
               /\ Finish(p, Uncaught("TypeError"))
          ELSE /\ Commit(res.db)
               /\ Finish(p, ToggleResp("unliked", tt, tid, FALSE))

(***************************************************************************)
(* views.py 276, 308: the store fails a statement of an open atomic block  *)
(* (OperationalError); the block rolls back and the exception leaves the   *)
(* view.                                                                   *)
(***************************************************************************)
TxnFails(p) ==
    /\ UNCHANGED requests
    /\ txn.owner = p
    /\ Rollback
    /\ Finish(p, Uncaught("OperationalError"))

Next ==
    \E p \in Procs :
        \/ Begin(p)
        \/ Validate(p)
        \/ CheckExisting(p)
        \/ LikeCreate(p)
        \/ LikeKarma(p)
        \/ LikeIncrement(p)
        \/ UnlikeDelete(p)
        \/ UnlikeDecrement(p)
        \/ UnlikeKarma(p)
        \/ TxnFails(p)

Spec == Init /\ [][Next]_vars

(***************************************************************************)
(* The same handlers, with clients that send any target_type and target_id.*)
(***************************************************************************)
NextAny ==
    \E p \in Procs :
        \/ BeginAny(p)
        \/ Validate(p)
        \/ CheckExisting(p)
        \/ LikeCreate(p)
        \/ LikeKarma(p)
        \/ LikeIncrement(p)
        \/ UnlikeDelete(p)
        \/ UnlikeDecrement(p)
        \/ UnlikeKarma(p)
        \/ TxnFails(p)

SpecAny == Init /\ [][NextAny]_vars

(***************************************************************************)
(* The race: every handler has received the same toggle (same user, same   *)
(* existing target) on a store without likes, and no further request       *)
(* arrives.                                                                *)
(***************************************************************************)
InitRace ==
    /\ db = InitDb
    /\ txn = NoTxn
    /\ pc = [p \in Procs |-> "validate"]
    /\ \E u \in Users, tt \in TargetTypes :
           req = [p \in Procs |-> [user |-> u, target_type |-> tt, target_id |-> 1]]
    /\ requests = NumProcs
    /\ existing_like = [p \in Procs |-> 0]
    /\ resp = [p \in Procs |-> NoResp]
    /\ pair = NoPair

NextRace ==
    \E p \in Procs :
        \/ Validate(p)
        \/ CheckExisting(p)
        \/ LikeCreate(p)
        \/ LikeKarma(p)
        \/ LikeIncrement(p)
        \/ UnlikeDelete(p)
        \/ UnlikeDecrement(p)
        \/ UnlikeKarma(p)
        \/ TxnFails(p)

SpecRace == InitRace /\ [][NextRace]_vars

(***************************************************************************)
(* The crowd: every handler has received the like of a different user for  *)
(* the same target, which nobody likes yet, and no further request         *)
(* arrives.  None of these requests finds a Like row of its user, so none  *)
(* takes the unlike branch.                                                *)
(***************************************************************************)
InitCrowd ==
    /\ db = InitDb
    /\ txn = NoTxn
    /\ pc = [p \in Procs |-> "validate"]
    /\ \E who \in [Procs -> Users], tt \in TargetTypes :
           /\ \A p, q \in Procs : who[p] = who[q] => p = q
           /\ req = [p \in Procs |->
                        [user |-> who[p], target_type |-> tt, target_id |-> 1]]
    /\ requests = NumProcs
    /\ existing_like = [p \in Procs |-> 0]
    /\ resp = [p \in Procs |-> NoResp]
    /\ pair = NoPair

NextCrowd ==
    \E p \in Procs :
        \/ Validate(p)
        \/ CheckExisting(p)
        \/ LikeCreate(p)
        \/ LikeKarma(p)
        \/ LikeIncrement(p)
        \/ TxnFails(p)

SpecCrowd == InitCrowd /\ [][NextCrowd]_vars

(***************************************************************************)
(* The unlike race: a user likes a target, and every handler has received  *)
(* the next toggle of that user for that target; no further request        *)
(* arrives.  The Like row stays in the committed store until an unlike     *)
(* commits, so none of these requests takes the like branch before that.   *)
(***************************************************************************)
\* the store after the like of user u for target 1 of type tt
LikedDb(u, tt) ==
    LET author == TargetAuthor(InitDb, tt, 1)
        liked == InsertLike(InitDb, u, tt, 1)
        awarded == IF AwardsKarma(author, u)
                   THEN CreateKarmaEvent(liked, author, KarmaAmount(tt),
                                         KarmaReason(tt), tt, 1)
                   ELSE liked
    IN UpdateLikeCount(awarded, tt, 1, 1)

InitUnlikeRace ==
    /\ \E u \in Users, tt \in TargetTypes :
           /\ db = LikedDb(u, tt)
           /\ req = [p \in Procs |-> [user |-> u, target_type |-> tt, target_id |-> 1]]
    /\ txn = NoTxn
    /\ pc = [p \in Procs |-> "validate"]
    /\ requests = NumProcs
    /\ existing_like = [p \in Procs |-> 0]
    /\ resp = [p \in Procs |-> NoResp]
    /\ pair = NoPair

NextUnlikeRace ==
    \E p \in Procs :
        \/ Validate(p)
        \/ CheckExisting(p)
        \/ UnlikeDelete(p)
        \/ UnlikeDecrement(p)
        \/ UnlikeKarma(p)
        \/ TxnFails(p)

SpecUnlikeRace == InitUnlikeRace /\ [][NextUnlikeRace]_vars

TypeOK ==
    /\ txn.owner \in 0..NumProcs
    /\ \A p \in Procs : pc[p] \in {"idle", "validate", "check", "like_create", "like_karma",
                                   "like_count", "unlike_delete", "unlike_count",
                                   "unlike_karma"}

(***************************************************************************)
(* Comment threads.                                                        *)
(*                                                                         *)
(* Handlers run CommentCreateView (views.py 184-213) against a feed of two *)
(* posts; PostDetailView.get_object (views.py 112-170) serves a post with  *)
(* its comment tree.  The project sets no ATOMIC_REQUESTS and the create   *)
(* path opens no transaction: every ORM call of a creation is a statement  *)
(* of its own, committed when it returns.                                  *)
(*                                                                         *)
(* SpecThreads     creations overlap freely, fetches happen at any moment  *)
(* SpecThreadsSeq  a creation is received only when no other one is running*)
(***************************************************************************)
ThreadPostIds == {1, 2}
\* the pk in the URL of a request: a post of the feed, or no post's pk
PostIdInputs == {1, 2, 3}
\* the comments the store holds at the start: none, or the two root comments
\* left of older threads of post 1 (the pks between them are gone with the
\* comments that had them)
OlderThreads == {{}, {1, 8}}

\* the handler slot of the read-only views
Reader == 0
\* the user who writes the comments
Commenters == {2}

\* in the thread specifications resp holds the response given in the last
\* step, and nothing for a handler that did not answer in it
NoAnswers == [q \in Procs \cup {Reader} |-> NoResp]

\* the pk of a new Comment row
NextPk(table) == IF DOMAIN table = {} THEN 1 ELSE Max(DOMAIN table) + 1

\* request.data['parent'] of a client: null (0), the pk of a comment of the
\* feed, or a pk no comment has
ParentInputs(d) == {0, NextPk(d.Comment) + 1} \cup DOMAIN d.Comment

ThreadsDb(older) ==
    [ Post       |-> [i \in ThreadPostIds |-> [author |-> 1, like_count |-> 0]],
      Comment    |-> [i \in older |->
                         [author |-> 1, post |-> 1, parent |-> 0, path |-> RootPath(i),
                          depth |-> 0, like_count |-> 0]],
      Like       |-> {},
      KarmaEvent |-> {} ]

NoCommentReq ==
    [user |-> 0, post_id |-> 0, parent |-> 0, parent_depth |-> 0,
     parent_path |-> EmptyPath, pk |-> 0]

\* Response(serializer.data, status=201) of CreateAPIView.create
Created(pk) ==
    [NoResp EXCEPT !.code = 201, !.status = "created",
                   !.target_type = "comment", !.target_id = pk]

\* serializer.is_valid(raise_exception=True) failing: status=400
ValidationError == ErrorResp(400)

InitThreads ==
    /\ \E older \in OlderThreads : db = ThreadsDb(older)
    /\ txn = NoTxn
    /\ pc = [p \in Procs |-> "idle"]
    /\ req = [p \in Procs |-> NoCommentReq]
    /\ existing_like = [p \in Procs |-> 0]
    /\ resp = NoAnswers
    /\ requests = 0
    /\ pair = NoPair

\* handler p returns r
CommentFinish(p, r) ==
    /\ pc' = [pc EXCEPT ![p] = "idle"]
    /\ resp' = [NoAnswers EXCEPT ![p] = r]
    /\ req' = [req EXCEPT ![p] = NoCommentReq]

CommentGoto(p, label, r) ==
    /\ pc' = [pc EXCEPT ![p] = label]
    /\ resp' = NoAnswers
    /\ req' = [req EXCEPT ![p] = r]

(***************************************************************************)
(* views.py 184-190: handler p receives POST /api/posts/<post_id>/comments/*)
(* of authenticated user u with request.data = {content, parent}.          *)
(***************************************************************************)
CommentReceive(p, u, post_id, parent) ==
    /\ pc[p] = "idle"
    /\ requests < MaxRequests
    /\ requests' = requests + 1
    /\ req' = [req EXCEPT ![p] =
                  [NoCommentReq EXCEPT !.user = u, !.post_id = post_id,
                                       !.parent = parent]]
    /\ pc' = [pc EXCEPT ![p] = "c_validate"]
    /\ resp' = NoAnswers
    /\ UNCHANGED <<db, txn, existing_like, pair>>

CommentBegin(p) ==
    \E u \in Commenters, post_id \in PostIdInputs, parent \in ParentInputs(db) :
        CommentReceive(p, u, post_id, parent)

\* the same request, received while no other creation is running
CommentBeginSeq(p) == Quiescent /\ CommentBegin(p)

(***************************************************************************)
(* serializers.py 96-100: CreateAPIView.create validates request.data with *)
(* CommentCreateSerializer before perform_create runs.  'parent' is a      *)
(* writable field of the ModelSerializer, a primary-key relation over all  *)
(* comments (models.py 45-51: null=True, blank=True): a pk that no comment *)
(* has fails validation, null and an absent key pass.                      *)
(***************************************************************************)
CommentValidate(p) ==
    /\ pc[p] = "c_validate"
    /\ IF req[p].parent # 0 /\ req[p].parent \notin DOMAIN db.Comment
       THEN CommentFinish(p, ValidationError)
       ELSE CommentGoto(p, "c_post", req[p])
    /\ UNCHANGED <<db, txn, existing_like, requests, pair>>

(***************************************************************************)
(* views.py 192-198: the post of the URL.                                  *)
(***************************************************************************)
CommentGetPost(p) ==
    /\ pc[p] = "c_post"
    /\ IF req[p].post_id \notin DOMAIN db.Post
       THEN CommentFinish(p, NotFound)
       ELSE CommentGoto(p, "c_parent", req[p])
    /\ UNCHANGED <<db, txn, existing_like, requests, pair>>

(***************************************************************************)
(* views.py 200-207: the parent, looked up among the comments of the post. *)
(* The instance read here, with the depth and path the row has now, is the *)
(* one Comment.save uses.                                                  *)
(***************************************************************************)
CommentGetParent(p) ==
    /\ pc[p] = "c_parent"
    /\ LET parent == req[p].parent
       IN IF parent = 0
          THEN CommentGoto(p, "c_insert", req[p])
          ELSE IF parent \notin DOMAIN db.Comment
                  \/ db.Comment[parent].post # req[p].post_id
          THEN CommentFinish(p, NotFound)
          ELSE CommentGoto(p, "c_insert",
                   [req[p] EXCEPT !.parent_depth = db.Comment[parent].depth,
                                  !.parent_path = db.Comment[parent].path])
    /\ UNCHANGED <<db, txn, existing_like, requests, pair>>

RootDepth == 0

ChildDepth_Same(parent_depth) == parent_depth

\* self.depth = self.parent.depth + 1
ChildDepth(parent_depth) == parent_depth + 1

(***************************************************************************)
(* views.py 209-213, models.py 62-72, 79-82: serializer.save() calls       *)
(* Comment.save, which sets the depth and inserts the row, its path still  *)
(* the field's default.  Like every write outside an atomic block it waits *)
(* while a handler's block holds the write lock of the store.              *)
(***************************************************************************)
CommentInsert(p) ==
    /\ pc[p] = "c_insert"
    /\ txn.owner = 0
    /\ LET pk == NextPk(db.Comment)
           row == [author |-> req[p].user, post |-> req[p].post_id,
                   parent |-> req[p].parent, path |-> EmptyPath,
                   depth |-> IF req[p].parent = 0 THEN RootDepth
                             ELSE ChildDepth(req[p].parent_depth),
                   like_count |-> 0]
       IN /\ db' = [db EXCEPT !.Comment =
                       [i \in DOMAIN @ \cup {pk} |-> IF i = pk THEN row ELSE @[i]]]
          /\ CommentGoto(p, "c_path", [req[p] EXCEPT !.pk = pk])
    /\ UNCHANGED <<txn, existing_like, requests, pair>>

(***************************************************************************)
(* models.py 73-76, 83-85: the path is computed from the new pk and        *)
(* written to the row; the view answers 201.                               *)
(***************************************************************************)
CommentSetPath(p) ==
    /\ pc[p] = "c_path"
    /\ txn.owner = 0
    /\ LET pk == req[p].pk
           path == IF req[p].parent = 0 THEN RootPath(pk)
                   ELSE ChildPath(req[p].parent_path, pk)
       IN /\ db' = [db EXCEPT !.Comment[pk].path = path]
          /\ CommentFinish(p, Created(pk))
    /\ UNCHANGED <<txn, existing_like, requests, pair>>

(***************************************************************************)
(* views.py 122-127: Comment.objects.filter(post=post).order_by('path').   *)
(* The rows of the post in ascending path order, as a sequence of pks;     *)
(* rows with equal paths come in any order.                                *)
(***************************************************************************)
CommentsOf(d, post_id) == {c \in DOMAIN d.Comment : d.Comment[c].post = post_id}

RECURSIVE OrdersBy(_, _)
OrdersBy(d, ids) ==
    IF ids = {} THEN {<<>>}
    ELSE UNION { { <<m>> \o rest : rest \in OrdersBy(d, ids \ {m}) } :
                 m \in {c \in ids : \A o \in ids :
                                       ~StrLess(d.Comment[o].path, d.Comment[c].path)} }

OrderByPath(d, post_id) == OrdersBy(d, CommentsOf(d, post_id))

\* request.user of a request without a session: AnonymousUser
Anonymous == 0

\* settings.py 89-94: SessionAuthentication and IsAuthenticated are the
\* defaults; a request the permission refuses is answered 403
Forbidden == ErrorResp(403)

LikedCommentIds_None(d, u, ids) == {}

\* views.py 134-143: the comments of the post the viewer has liked, read by
\* one query when the viewer is authenticated
LikedCommentIds(d, u, ids) ==
    IF u = Anonymous THEN {}
    ELSE {l.target_id : l \in {k \in d.Like : k.user = u /\ k.target_type = "comment"
                                              /\ k.target_id \in ids}}

QueryCount_PerNode(u, order) == 2 + Len(order)

\* the queries get_object sends to the store: the post (views.py 114), the
\* comments (views.py 122-127, evaluated once, by the first iteration over
\* comments_qs) and, for an authenticated viewer, the liked ids (views.py
\* 135-143)
QueryCount(u, order) == 1 + 1 + (IF u = Anonymous THEN 0 ELSE 1)

\* views.py 146-157: the node dict of a comment; children holds the pks of
\* the nodes appended to the node's children list
Node(d, c, liked) ==
    [id |-> c, author_id |-> d.Comment[c].author, depth |-> d.Comment[c].depth,
     like_count |-> d.Comment[c].like_count, parent_id |-> d.Comment[c].parent,
     children |-> <<>>, is_liked |-> c \in liked]

RECURSIVE BuildTree_Orphans(_, _, _, _, _, _)
BuildTree_Orphans(d, order, liked, i, comment_map, root_comments) ==
    IF i > Len(order) THEN [comment_map |-> comment_map, root_comments |-> root_comments]
    ELSE LET c == order[i]
             parent_id == d.Comment[c].parent
             registered == [k \in DOMAIN comment_map \cup {c} |->
                               IF k = c THEN Node(d, c, liked) ELSE comment_map[k]]
         IN BuildTree_Orphans(d, order, liked, i + 1, registered, root_comments)

RECURSIVE BuildTree(_, _, _, _, _, _)
(***************************************************************************)
(* views.py 145-166: the loop over the rows from the i-th on.  Each row's  *)
(* node is registered in comment_map, then appended to root_comments when  *)
(* the row has no parent, or to the children of its parent's node when     *)
(* comment_map has that node; otherwise it is appended nowhere.            *)
(***************************************************************************)
BuildTree(d, order, liked, i, comment_map, root_comments) ==
    IF i > Len(order) THEN [comment_map |-> comment_map, root_comments |-> root_comments]
    ELSE LET c == order[i]
             parent_id == d.Comment[c].parent
             registered == [k \in DOMAIN comment_map \cup {c} |->
                               IF k = c THEN Node(d, c, liked) ELSE comment_map[k]]
         IN IF parent_id = 0
            THEN BuildTree(d, order, liked, i + 1, registered,
                           Append(root_comments, c))
            ELSE IF parent_id \in DOMAIN registered
            THEN BuildTree(d, order, liked, i + 1,
                           [registered EXCEPT ![parent_id].children = Append(@, c)],
                           root_comments)
            ELSE BuildTree(d, order, liked, i + 1, registered, root_comments)

\* the response of the post-detail view: the post, the rows in the order
\* they were read, and post._comment_tree
Detail(d, u, post_id, order) ==
    LET built == BuildTree(d, order, LikedCommentIds(d, u, CommentsOf(d, post_id)),
                           1, <<>>, <<>>)
    IN [code |-> 200, status |-> "detail", post |-> post_id, order |-> order,
        comment_map |-> built.comment_map, comments |-> built.root_comments,
        viewer |-> u, queries |-> QueryCount(u, order)]

(***************************************************************************)
(* views.py 92-170: GET /api/posts/<pk>/ of user u.  The response records  *)
(* the viewer and the number of queries get_object sent.                   *)
(***************************************************************************)
PostDetail(u, post_id) ==
    /\ IF u = Anonymous
       THEN resp' = [NoAnswers EXCEPT ![Reader] = Forbidden]
       ELSE IF post_id \notin DOMAIN db.Post
       THEN resp' = [NoAnswers EXCEPT ![Reader] = NotFound]
       ELSE \E order \in OrderByPath(db, post_id) :
                resp' = [NoAnswers EXCEPT ![Reader] = Detail(db, u, post_id, order)]
    /\ UNCHANGED <<db, txn, pc, req, existing_like, requests, pair>>

Fetch == \E u \in Users, post_id \in PostIdInputs : PostDetail(u, post_id)

NextThreads ==
    \/ \E p \in Procs :
        \/ CommentBegin(p)
        \/ CommentValidate(p)
        \/ CommentGetPost(p)
        \/ CommentGetParent(p)
        \/ CommentInsert(p)
        \/ CommentSetPath(p)
    \/ Fetch

SpecThreads == InitThreads /\ [][NextThreads]_vars

NextThreadsSeq ==
    \/ \E p \in Procs :
        \/ CommentBeginSeq(p)
        \/ CommentValidate(p)
        \/ CommentGetPost(p)
        \/ CommentGetParent(p)
        \/ CommentInsert(p)
        \/ CommentSetPath(p)
    \/ Fetch

SpecThreadsSeq == InitThreads /\ [][NextThreadsSeq]_vars

(***************************************************************************)
(* The leaderboard.                                                        *)
(*                                                                         *)
(* LeaderboardView.get (views.py 385-408) is a function of the karma       *)
(* ledger and of the time of the call.  SpecLeaderboard starts from the    *)
(* ledgers that likes of the players' posts and comments leave, and calls  *)
(* the view at several times.  Times are hours.                            *)
(***************************************************************************)
NumPlayers == 6
\* timedelta(hours=24)
WindowHours == 24
\* [:5]
LeaderboardLimit == 5

Players == 1..NumPlayers
\* the hours at which likes were given
EarlyHour == 0
LateHour == 2
\* the hours at which the leaderboard is requested: the early likes are 24,
\* 25 and 27 hours old, the late ones 22, 23 and 25
CallHours == {24, 25, 27}

\* what a player's content has received: nothing, a late like of their post,
\* or an early like of their post and a late one of their comment
Histories ==
    { {}, {<<"post", LateHour>>}, {<<"post", EarlyHour>>, <<"comment", LateHour>>} }

\* the user who gave the likes of player u's content
Fan(u) == (u % NumPlayers) + 1

\* Every player wrote post u and comment u (on their own post); the likes of
\* history[u] were given by Fan(u), each leaving its Like row, its
\* KarmaEvent for u and the target's like_count, the early ones first.
LedgerDb(history) ==
    LET Liked(u, tt) == \E h \in history[u] : h[1] = tt
        Pk(u, hour) == IF hour = EarlyHour THEN u ELSE NumPlayers + u
    IN [ Post       |-> [i \in Players |->
                            [author |-> i,
                             like_count |-> IF Liked(i, "post") THEN 1 ELSE 0]],
         Comment    |-> [i \in Players |->
                            [author |-> i, post |-> i, parent |-> 0,
                             path |-> RootPath(i), depth |-> 0,
                             like_count |-> IF Liked(i, "comment") THEN 1 ELSE 0]],
         Like       |-> UNION { { [id |-> Pk(u, h[2]), user |-> Fan(u),
                                   target_type |-> h[1], target_id |-> u] :
                                  h \in history[u] } : u \in Players },
         KarmaEvent |-> UNION { { [id |-> Pk(u, h[2]), user |-> u,
                                   amount |-> KarmaAmount(h[1]),
                                   reason |-> KarmaReason(h[1]),
                                   related_type |-> h[1], related_id |-> u,
                                   created_at |-> h[2]] :
                                  h \in history[u] } : u \in Players } ]

InitLeaderboard ==
    /\ \E history \in [Players -> Histories] : db = LedgerDb(history)
    /\ txn = NoTxn
    /\ pc = [p \in Procs |-> "idle"]
    /\ req = [p \in Procs |-> NoReq]
    /\ existing_like = [p \in Procs |-> 0]
    /\ resp = NoAnswers
    /\ requests = 0
    /\ pair = NoPair

\* cutoff = timezone.now() - timedelta(hours=24)
Cutoff(now) == now - WindowHours

Recent_All(d, cutoff) == d.KarmaEvent

\* KarmaEvent.objects.filter(created_at__gte=cutoff)
Recent(d, cutoff) == {e \in d.KarmaEvent : e.created_at >= cutoff}

RECURSIVE SumAmounts(_)
\* Sum('amount')
SumAmounts(rows) ==
    IF rows = {} THEN 0
    ELSE LET e == CHOOSE x \in rows : TRUE
         IN e.amount + SumAmounts(rows \ {e})

\* .values('user_id', 'user__username').annotate(karma=Sum('amount')):
\* one row for each user of the filtered events
Grouped(rows) ==
    { [user_id |-> u, karma |-> SumAmounts({e \in rows : e.user = u})] :
      u \in {e.user : e \in rows} }

RECURSIVE OrdersByKarma(_)
\* .order_by('-karma'): the rows by descending karma, rows of equal karma
\* in any order
OrdersByKarma(groups) ==
    IF groups = {} THEN {<<>>}
    ELSE UNION { { <<g>> \o rest : rest \in OrdersByKarma(groups \ {g}) } :
                 g \in {x \in groups : \A y \in groups : y.karma <= x.karma} }

Limit_None(rows) == rows

\* [:5]
Limit(rows) ==
    SubSeq(rows, 1, IF Len(rows) < LeaderboardLimit THEN Len(rows) ELSE LeaderboardLimit)

\* for rank, entry in enumerate(leaderboard, start=1): results.append(...)
Ranked(rows) ==
    [i \in 1..Len(rows) |->
        [rank |-> i, user_id |-> rows[i].user_id, karma |-> rows[i].karma]]

\* Response(serializer.data), with the hour of the call
Board(now, results) ==
    [code |-> 200, status |-> "leaderboard", at |-> now, results |-> results]

(***************************************************************************)
(* views.py 385-408: GET /api/leaderboard/ at hour now.                    *)
(***************************************************************************)
LeaderboardGet(now) ==
    /\ resp[Reader] = NoResp
    /\ \E rows \in OrdersByKarma(Grouped(Recent(db, Cutoff(now)))) :
          resp' = [NoAnswers EXCEPT ![Reader] = Board(now, Ranked(Limit(rows)))]
    /\ UNCHANGED <<db, txn, pc, req, existing_like, requests, pair>>

\* the response has left the handler, which is free for the next request
Deliver ==
    /\ resp[Reader] # NoResp
    /\ resp' = NoAnswers
    /\ UNCHANGED <<db, txn, pc, req, existing_like, requests, pair>>

NextLeaderboard ==
    \/ \E now \in CallHours : LeaderboardGet(now)
    \/ Deliver

SpecLeaderboard == InitLeaderboard /\ [][NextLeaderboard]_vars

(***************************************************************************)
(* Counter reconciliation.                                                 *)
(*                                                                         *)
(* The seed command (seed_data.py) ends with a loop over the posts and the *)
(* comments it holds as model instances: for each it counts the Like rows  *)
(* of the target, assigns the count to the instance's like_count and saves *)
(* the instance.  save() of an instance that has a pk writes every column  *)
(* from the instance.  The instances are those the command created, each   *)
(* by a creation that ran to its end.  Every statement commits on its own. *)
(*                                                                         *)
(* SpecReconcile  the loop runs on a store whose counters have drifted     *)
(* SpecFeed       every operation of the feed, on one store                *)
(***************************************************************************)
MaxDrift == 2

RECURSIVE InPkOrder(_)
\* the pks of a list built in creation order
InPkOrder(pks) ==
    IF pks = {} THEN <<>>
    ELSE LET least == CHOOSE i \in pks : \A j \in pks : i <= j
         IN <<least>> \o InPkOrder(pks \ {least})

\* the comments whose creation has inserted the row and not yet set the path
InCreation == {req[q].pk : q \in {r \in Procs : pc[r] = "c_path"}}

Covered_All(d) ==
    LET posts == InPkOrder(DOMAIN d.Post)
        comments == InPkOrder(DOMAIN d.Comment)
    IN [i \in 1..Len(posts) |-> <<"post", posts[i]>>]
       \o [i \in 1..Len(comments) |-> <<"comment", comments[i]>>]

\* posts, then all_comments: the targets the loop visits, in its order
Covered(d) ==
    LET posts == InPkOrder(DOMAIN d.Post)
        comments == InPkOrder(DOMAIN d.Comment \ InCreation)
    IN [i \in 1..Len(posts) |-> <<"post", posts[i]>>]
       \o [i \in 1..Len(comments) |-> <<"comment", comments[i]>>]

NoReconcileReq == [instances |-> <<>>, todo |-> <<>>, count |-> 0]

\* self.stdout.write(self.style.SUCCESS('Successfully seeded ...'))
Seeded == [NoResp EXCEPT !.status = "seeded"]

\* Like.objects.filter(target_type=, target_id=).count()
CountLikes_PlusOne(d, tt, tid) == Cardinality(LikesOn(d, tt, tid)) + 1

CountLikes(d, tt, tid) == Cardinality(LikesOn(d, tt, tid))

\* post.save() / comment.save(): UPDATE of every column of the row
SaveInstance(d, tt, tid, instance) ==
    IF tt = "post" THEN [d EXCEPT !.Post[tid] = instance]
    ELSE [d EXCEPT !.Comment[tid] = instance]

\* the command reaches the loop holding posts and all_comments
ReconcileBegin(p) ==
    /\ pc[p] = "idle"
    /\ requests < MaxRequests
    /\ requests' = requests + 1
    /\ LET todo == Covered(db)
       IN req' = [req EXCEPT ![p] =
                     [instances |-> [t \in {todo[i] : i \in DOMAIN todo} |->
                                        TargetRow(db, t[1], t[2])],
                      todo |-> todo, count |-> 0]]
    /\ pc' = [pc EXCEPT ![p] = "r_count"]
    /\ resp' = [resp EXCEPT ![p] = NoResp]
    /\ UNCHANGED <<db, txn, existing_like, pair>>

\* seed_data.py 183, 187: the count of the target's Like rows
ReconcileCount(p) ==
    /\ pc[p] = "r_count"
    /\ LET t == Head(req[p].todo)
       IN req' = [req EXCEPT ![p].count = CountLikes(db, t[1], t[2])]
    /\ pc' = [pc EXCEPT ![p] = "r_save"]
    /\ UNCHANGED <<db, txn, existing_like, resp, requests, pair>>

\* seed_data.py 183-184, 187-188: the count goes to the instance, which is
\* saved; after the last target the command reports and ends
ReconcileSave(p) ==
    /\ pc[p] = "r_save"
    /\ txn.owner = 0
    /\ LET t == Head(req[p].todo)
           instance == [req[p].instances[t] EXCEPT !.like_count = req[p].count]
       IN db' = SaveInstance(db, t[1], t[2], instance)
    /\ IF Len(req[p].todo) = 1
       THEN /\ pc' = [pc EXCEPT ![p] = "idle"]
            /\ req' = [req EXCEPT ![p] = NoReq]
            /\ resp' = [resp EXCEPT ![p] = Seeded]
       ELSE /\ pc' = [pc EXCEPT ![p] = "r_count"]
            /\ req' = [req EXCEPT ![p].todo = Tail(@)]
            /\ UNCHANGED resp
    /\ UNCHANGED <<txn, existing_like, requests, pair>>

\* the pk of the Like row of user u for a target, and of its KarmaEvent
DriftPk(u, tt) == 2 * (u - 1) + (IF tt = "post" THEN 1 ELSE 2)

\* The store after likes of the pairs in liked, with counters that an
\* earlier fault, a manual edit or an import left at any value.
DriftDb(liked, post_count, comment_count) ==
    [ Post       |-> [i \in PostIds |-> [author |-> 1, like_count |-> post_count]],
      Comment    |-> [i \in CommentIds |->
                         [author |-> 2, post |-> 1, parent |-> 0, path |-> RootPath(i),
                          depth |-> 0, like_count |-> comment_count]],
      Like       |-> { [id |-> DriftPk(l[1], l[2]), user |-> l[1],
                        target_type |-> l[2], target_id |-> 1] : l \in liked },
      KarmaEvent |-> { [id |-> DriftPk(l[1], l[2]),
                        user |-> TargetAuthor(InitDb, l[2], 1),
                        amount |-> KarmaAmount(l[2]), reason |-> KarmaReason(l[2]),
                        related_type |-> l[2], related_id |-> 1,
                        created_at |-> DriftPk(l[1], l[2])] :
                       l \in {x \in liked : AwardsKarma(TargetAuthor(InitDb, x[2], 1), x[1])} } ]

InitReconcile ==
    /\ \E liked \in SUBSET (Users \X TargetTypes), post_count, comment_count \in 0..MaxDrift :
           db = DriftDb(liked, post_count, comment_count)
    /\ txn = NoTxn
    /\ pc = [p \in Procs |-> "idle"]
    /\ req = [p \in Procs |-> NoReq]
    /\ existing_like = [p \in Procs |-> 0]
    /\ resp = [p \in Procs |-> NoResp]
    /\ requests = 0
    /\ pair = NoPair

NextReconcile ==
    \E p \in Procs :
        \/ ReconcileBegin(p)
        \/ ReconcileCount(p)
        \/ ReconcileSave(p)

SpecReconcile == InitReconcile /\ [][NextReconcile]_vars

(***************************************************************************)
(* The feed: like toggles, comment creations, post-detail fetches,         *)
(* leaderboard reads and the reconciliation loop on one store.  A          *)
(* statement that writes outside a transaction waits while a handler's     *)
(* atomic block holds the store's write lock.                              *)
(***************************************************************************)
InitFeed ==
    /\ db = InitDb
    /\ txn = NoTxn
    /\ pc = [p \in Procs |-> "idle"]
    /\ req = [p \in Procs |-> NoReq]
    /\ existing_like = [p \in Procs |-> 0]
    /\ resp = NoAnswers
    /\ requests = 0
    /\ pair = NoPair

NextFeed ==
    \/ \E p \in Procs :
        \/ Begin(p)
        \/ Validate(p)
        \/ CheckExisting(p)
        \/ LikeCreate(p)
        \/ LikeKarma(p)
        \/ LikeIncrement(p)
        \/ UnlikeDelete(p)
        \/ UnlikeDecrement(p)
        \/ UnlikeKarma(p)
        \/ TxnFails(p)
        \/ CommentBegin(p)
        \/ CommentValidate(p)
        \/ CommentGetPost(p)
        \/ CommentGetParent(p)
        \/ CommentInsert(p)
        \/ CommentSetPath(p)
        \/ ReconcileBegin(p)
        \/ ReconcileCount(p)
        \/ ReconcileSave(p)
    \/ Fetch
    \/ \E now \in CallHours : LeaderboardGet(now)
    \/ Deliver

SpecFeed == InitFeed /\ [][NextFeed]_vars

(***************************************************************************)
(* The post-detail view on a store that holds liked threads.               *)
(*                                                                         *)
(* SpecDetail  any user, or nobody, fetches any post of a store that holds *)
(*             two posts, the first comments of their threads and likes of *)
(*             these comments                                              *)
(***************************************************************************)
\* comments 1, 2, 3 are a chain of replies under post 1; comment 4 is a root
\* comment of post 2
ShelfComments == 1..4
ShelfPost(c) == IF c <= 3 THEN 1 ELSE 2
ShelfParent(c) == IF c \in {2, 3} THEN c - 1 ELSE 0
ShelfAuthor(c) == (c % NumUsers) + 1

RECURSIVE ShelfPath(_)
ShelfPath(c) ==
    IF ShelfParent(c) = 0 THEN RootPath(c) ELSE ChildPath(ShelfPath(ShelfParent(c)), c)

RECURSIVE ShelfDepth(_)
ShelfDepth(c) ==
    IF ShelfParent(c) = 0 THEN RootDepth ELSE ChildDepth(ShelfDepth(ShelfParent(c)))

\* the pk of the Like row of user u for comment c, and of its KarmaEvent
ShelfPk(u, c) == (u - 1) * Cardinality(ShelfComments) + c

\* The store after the creation of the first n comments and the likes of
\* the pairs in liked.
ShelfDb(n, liked) ==
    [ Post       |-> [i \in ThreadPostIds |-> [author |-> 1, like_count |-> 0]],
      Comment    |-> [c \in 1..n |->
                         [author |-> ShelfAuthor(c), post |-> ShelfPost(c),
                          parent |-> ShelfParent(c), path |-> ShelfPath(c),
                          depth |-> ShelfDepth(c),
                          like_count |-> Cardinality({l \in liked : l[2] = c})]],
      Like       |-> { [id |-> ShelfPk(l[1], l[2]), user |-> l[1],
                        target_type |-> "comment", target_id |-> l[2]] : l \in liked },
      KarmaEvent |-> { [id |-> ShelfPk(l[1], l[2]), user |-> ShelfAuthor(l[2]),
                        amount |-> KarmaAmount("comment"),
                        reason |-> KarmaReason("comment"),
                        related_type |-> "comment", related_id |-> l[2],
                        created_at |-> ShelfPk(l[1], l[2])] :
                       l \in {x \in liked : AwardsKarma(ShelfAuthor(x[2]), x[1])} } ]

InitDetail ==
    /\ \E n \in {0} \cup ShelfComments :
         \E liked \in SUBSET (Users \X (1..n)) : db = ShelfDb(n, liked)
    /\ txn = NoTxn
    /\ pc = [p \in Procs |-> "idle"]
    /\ req = [p \in Procs |-> NoCommentReq]
    /\ existing_like = [p \in Procs |-> 0]
    /\ resp = NoAnswers
    /\ requests = 0
    /\ pair = NoPair

\* a request of any user, or of a client without a session
FetchAny ==
    \E u \in Users \cup {Anonymous}, post_id \in PostIdInputs : PostDetail(u, post_id)

NextDetail ==
    \/ FetchAny
    \/ Deliver

SpecDetail == InitDetail /\ [][NextDetail]_vars

(***************************************************************************)
(* Properties of the like ledger.                                          *)
(***************************************************************************)
\* handler p leaves the position at label in this step
Leaves(p, label) == pc[p] = label /\ pc'[p] # label

\* handler p answers in this step, and the store did not fail its transaction
Answers(p) == InFlight(p) /\ pc'[p] = "idle" /\ resp'[p].exc # "OperationalError"

\* C1: once no request is in flight, the like_count of every post and
\* every comment equals the number of Like rows on that target.
C1_CountersMatchLikes ==
    Quiescent =>
        \A t \in Targets :
            LikeCount(db, t[1], t[2]) = Cardinality(LikesOn(db, t[1], t[2]))

\* C1 witness: toggles have run: the post and the comment are liked, and a
\* second toggle of one of them has been answered
C1_Witness ==
    /\ Quiescent
    /\ LikeCount(db, "post", 1) = 1
    /\ LikeCount(db, "comment", 1) = 1
    /\ \E p \in Procs : resp[p].exc = "TypeError"

\* C2 (as stated): after the same toggle was issued concurrently by every
\* handler on a target the user did not like, and all have answered, there is
\* exactly one Like row, exactly one karma event for the target, and the
\* target's like_count equals its Like-row count.
RaceSettled ==
    /\ Quiescent
    /\ \A p \in Procs : resp[p] # NoResp /\ resp[p].exc # "OperationalError"

C2_RaceOneLikeOneKarma ==
    RaceSettled =>
        /\ Cardinality(db.Like) = 1
        /\ Cardinality(db.KarmaEvent) = 1
        /\ \A t \in Targets :
               LikeCount(db, t[1], t[2]) = Cardinality(LikesOn(db, t[1], t[2]))

\* C2 (amended): as above, with exactly one karma event for the target when
\* the user is not the target's author and none when the user is its author.
C2_RaceOneLike ==
    RaceSettled =>
        /\ Cardinality(db.Like) = 1
        /\ \A l \in db.Like :
               /\ Cardinality(LikesOf(db, l.user, l.target_type, l.target_id)) = 1
               /\ Cardinality(KarmaOn(db, l.target_type, l.target_id)) =
                      IF l.user # TargetRow(InitDb, l.target_type, l.target_id).author
                      THEN 1 ELSE 0
               /\ db.KarmaEvent = KarmaOn(db, l.target_type, l.target_id)
        /\ \A t \in Targets :
               LikeCount(db, t[1], t[2]) = Cardinality(LikesOn(db, t[1], t[2]))

\* C2 witness: the race happened: one handler won the insert, another lost it
C2_Witness ==
    /\ RaceSettled
    /\ \E p, q \in Procs : /\ resp[p].status = "liked"
                           /\ resp[q].status = "already_liked"
    /\ Cardinality(db.KarmaEvent) = 1

\* C3: in every state, also in the middle of concurrent toggles and inside
\* an open transaction, there is at most one Like row per
\* (user, target_type, target_id).
OneLikePerTriple(d) ==
    \A l, m \in d.Like :
        (l.user = m.user /\ l.target_type = m.target_type
         /\ l.target_id = m.target_id) => l = m

C3_OneLikePerTriple ==
    /\ OneLikePerTriple(db)
    /\ txn.owner # 0 => OneLikePerTriple(txn.work)

\* C3 witness: two handlers hold the same toggle, both saw no like, one has
\* committed its row and the other is about to insert
C3_Witness ==
    \E p, q \in Procs :
        /\ pc[p] = "like_create"
        /\ existing_like[p] = 0
        /\ resp[q].status = "liked"
        /\ LikesOf(db, req[p].user, req[p].target_type, req[p].target_id) # {}

\* C4: a handler that saw no like and attempts the insert while the row of
\* another request is in the store answers already_liked with is_liked true
\* and status 200, stops there (no retry), and leaves Like rows, karma events
\* and counters as they are; an insert that meets no such row goes on inside
\* its transaction.  The key keeps exactly one row.
C4_LoserAlreadyLiked ==
    [][\A p \in Procs :
        Leaves(p, "like_create") =>
            LET u == req[p].user
                tt == req[p].target_type
                tid == req[p].target_id
            IN IF LikesOf(db, u, tt, tid) # {}
               THEN /\ resp'[p] = [code |-> 200, status |-> "already_liked",
                                   target_type |-> tt, target_id |-> tid,
                                   is_liked |-> TRUE, exc |-> "none"]
                    /\ pc'[p] = "idle"
                    /\ db' = db
                    /\ txn'.owner = 0
                    /\ Cardinality(LikesOf(db', u, tt, tid)) = 1
               ELSE /\ pc'[p] = "like_karma"
                    /\ txn'.owner = p
                    /\ Cardinality(LikesOf(txn'.work, u, tt, tid)) = 1
                    /\ db' = db]_vars

\* C4 witness: both handlers attempted the insert for one target; one
\* answered liked, the other already_liked
C4_Witness ==
    \E p, q \in Procs :
        /\ resp[p].status = "liked"
        /\ resp[q].status = "already_liked"
        /\ resp[p].target_type = resp[q].target_type
        /\ LikeCount(db, resp[p].target_type, resp[p].target_id) = 1

\* C5: a toggle that found the user's Like row and runs to its answer has
\* removed the Like row, deleted exactly the most recent matching karma
\* event of the target's author, lowered the target's like_count by one, and
\* answers unliked with is_liked false.
C5_UnlikeTransitions ==
    [][\A p \in Procs :
        (Answers(p) /\ pc[p] \in {"unlike_delete", "unlike_count", "unlike_karma"}) =>
            LET u == req[p].user
                tt == req[p].target_type
                tid == req[p].target_id
            IN /\ LikesOf(db', u, tt, tid) = {}
               /\ db'.KarmaEvent = db.KarmaEvent \
                      MostRecent(MatchingKarma(db, TargetAuthor(db, tt, tid),
                                               KarmaReason(tt), tt, tid))
               /\ LikeCount(db', tt, tid) = LikeCount(db, tt, tid) - 1
               /\ resp'[p].status = "unliked"
               /\ resp'[p].is_liked = FALSE]_vars

\* C6: a like directly followed by a second toggle of the same user on the
\* same target, with no other request in between, leaves the target's
\* like_count and the karma events as they were before the like.
C6_LikeUnlikeRoundTrip ==
    pair.stage = 4 =>
        /\ LikeCount(db, pair.target_type, pair.target_id) = pair.like_count
        /\ db.KarmaEvent = pair.karma

\* C7: the step in which a like by a user other than the target's author
\* answers 'liked' adds exactly one karma event; its recipient is the
\* target's author, it names the target, and its amount is 5 for a post and
\* 1 for a comment.
C7_LikeAwardsAuthor ==
    [][\A p \in Procs :
        (Answers(p) /\ resp'[p].status = "liked"
         /\ req[p].user # TargetRow(InitDb, req[p].target_type, req[p].target_id).author) =>
            \E e \in db'.KarmaEvent \ db.KarmaEvent :
                /\ db'.KarmaEvent = db.KarmaEvent \cup {e}
                /\ e.user = TargetRow(InitDb, req[p].target_type, req[p].target_id).author
                /\ e.user # req[p].user
                /\ e.related_type = req[p].target_type
                /\ e.related_id = req[p].target_id
                /\ e.amount = IF req[p].target_type = "post" THEN 5 ELSE 1]_vars

\* C7 witness: a like of a post and a like of a comment by non-authors have
\* been answered
C7_Witness ==
    /\ \E p \in Procs : resp[p].status = "liked"
    /\ \E e \in db.KarmaEvent : e.related_type = "post" /\ e.amount = 5
    /\ \E e \in db.KarmaEvent : e.related_type = "comment" /\ e.amount = 1

\* C8: the step in which a like by the target's author answers 'liked' adds
\* the Like row, raises the target's like_count by one and leaves the karma
\* events as they are.
C8_SelfLikeNoKarma ==
    [][\A p \in Procs :
        (Answers(p) /\ resp'[p].status = "liked"
         /\ req[p].user = TargetRow(InitDb, req[p].target_type, req[p].target_id).author) =>
            LET u == req[p].user
                tt == req[p].target_type
                tid == req[p].target_id
            IN /\ LikesOf(db, u, tt, tid) = {}
               /\ Cardinality(LikesOf(db', u, tt, tid)) = 1
               /\ db'.Like \ db.Like = LikesOf(db', u, tt, tid)
               /\ LikeCount(db', tt, tid) = LikeCount(db, tt, tid) + 1
               /\ db'.KarmaEvent = db.KarmaEvent]_vars

\* C8 witness: the author of the post likes it: the row and the count are
\* there, no karma event is
C8_Witness ==
    /\ \E p \in Procs : resp[p].status = "liked" /\ resp[p].target_type = "post"
    /\ LikesOf(db, 1, "post", 1) # {}
    /\ LikeCount(db, "post", 1) = 1
    /\ db.KarmaEvent = {}

\* C9: the store changes only by a whole toggle: every step either leaves
\* Like rows, karma events and counters as they are, or is the end of a
\* like's transaction (the row, the karma event of a non-author's like and
\* the increment together), or the end of an unlike's transaction (the row
\* gone, at most one karma event gone, the decrement together).  A step in
\* which a transaction fails leaves the store as it was.
LikeApplied(p) ==
    LET u == req[p].user
        tt == req[p].target_type
        tid == req[p].target_id
        author == TargetRow(InitDb, tt, tid).author
    IN /\ pc[p] = "like_count"
       /\ resp'[p].status = "liked"
       /\ Cardinality(db'.Like \ db.Like) = 1
       /\ db.Like \subseteq db'.Like
       /\ db'.Like \ db.Like = LikesOf(db', u, tt, tid)
       /\ db.KarmaEvent \subseteq db'.KarmaEvent
       /\ Cardinality(db'.KarmaEvent \ db.KarmaEvent) = IF u # author THEN 1 ELSE 0
       /\ db'.KarmaEvent \ db.KarmaEvent \subseteq KarmaOn(db', tt, tid)
       /\ db' = UpdateLikeCount([db EXCEPT !.Like = db'.Like,
                                           !.KarmaEvent = db'.KarmaEvent],
                                tt, tid, 1)

UnlikeApplied(p) ==
    LET tt == req[p].target_type
        tid == req[p].target_id
    IN /\ pc[p] = "unlike_karma"
       /\ resp'[p].status = "unliked"
       /\ db'.Like = {l \in db.Like : l.id # existing_like[p]}
       /\ db'.KarmaEvent \subseteq db.KarmaEvent
       /\ Cardinality(db.KarmaEvent \ db'.KarmaEvent) <= 1
       /\ db' = UpdateLikeCount([db EXCEPT !.Like = db'.Like,
                                           !.KarmaEvent = db'.KarmaEvent],
                                tt, tid, -1)

C9_AllOrNothing ==
    [][/\ \/ db' = db
          \/ \E p \in Procs : LikeApplied(p)
          \/ \E p \in Procs : UnlikeApplied(p)
       /\ \A p \in Procs :
            (InFlight(p) /\ pc'[p] = "idle" /\ resp'[p].code # 200) => db' = db]_vars

\* C9 witness: a transaction failed after partial work (the Like row deleted
\* and the counter decremented in it) and the store still holds the row, the
\* karma event and the count
C9_Witness ==
    /\ \E p \in Procs : resp[p].exc = "TypeError"
    /\ \E p \in Procs : resp[p].exc = "OperationalError"
    /\ LikesOf(db, 2, "post", 1) # {}
    /\ LikeCount(db, "post", 1) = 1
    /\ Cardinality(db.KarmaEvent) = 1

\* C10: a toggle whose target_type is neither 'post' nor
\* 'comment' answers 400, one whose target entity does not exist answers
\* 404, and both leave Like rows, karma events and counters as they are.
NoSuchTarget(tt, tid) ==
    \/ tt = "post" /\ tid \notin PostIds
    \/ tt = "comment" /\ tid \notin CommentIds

C10_RejectsInvalid ==
    [][\A p \in Procs :
        Leaves(p, "validate") =>
            LET tt == req[p].target_type
                tid == req[p].target_id
            IN /\ tt \notin {"post", "comment"} =>
                    (resp'[p].code = 400 /\ pc'[p] = "idle" /\ db' = db)
               /\ NoSuchTarget(tt, tid) =>
                    (resp'[p].code = 404 /\ pc'[p] = "idle" /\ db' = db)]_vars

(***************************************************************************)
(* Properties of the comment threads.                                      *)
(***************************************************************************)
\* the creation handler p answers in this step
CommentAnswers(p) == InFlight(p) /\ pc'[p] = "idle"

\* the request of handler p names a post that does not exist, a parent that
\* does not exist, or a parent that belongs to another post
Unplaceable(p) ==
    \/ req[p].post_id \notin ThreadPostIds
    \/ /\ req[p].parent # 0
       /\ \/ req[p].parent \notin DOMAIN db.Comment
          \/ db.Comment[req[p].parent].post # req[p].post_id

\* every comment that has a parent belongs to the post of that parent
ParentOnSamePost(d) ==
    \A c \in DOMAIN d.Comment :
        d.Comment[c].parent # 0 =>
            /\ d.Comment[c].parent \in DOMAIN d.Comment
            /\ d.Comment[d.Comment[c].parent].post = d.Comment[c].post

(***************************************************************************)
(* C11: a comment creation whose post does not exist, whose stated parent  *)
(* does not exist, or whose stated parent belongs to a different post, is  *)
(* answered NotFound (404) and adds no comment row; and every comment that *)
(* has a parent belongs to the same post as that parent.                   *)
(***************************************************************************)
C11_RejectsNotFound ==
    [][/\ \A p \in Procs :
            Unplaceable(p) /\ pc'[p] # pc[p] =>
                /\ DOMAIN db'.Comment = DOMAIN db.Comment
                /\ CommentAnswers(p) => resp'[p].code = 404
       /\ ParentOnSamePost(db')]_vars

\* the post-detail view has answered in the last step, with a post
Fetched == resp[Reader].status = "detail"

SeqElems(s) == {s[i] : i \in DOMAIN s}

NoRepeats(s) == \A i, j \in DOMAIN s : s[i] = s[j] => i = j

RECURSIVE ForestNodes(_, _)
\* the pks of the nodes of the forest whose roots are the nodes of s
ForestNodes(comment_map, s) ==
    IF s = <<>> THEN {}
    ELSE {Head(s)} \cup ForestNodes(comment_map, comment_map[Head(s)].children)
                   \cup ForestNodes(comment_map, Tail(s))

RECURSIVE ForestSize(_, _)
\* the number of nodes of that forest
ForestSize(comment_map, s) ==
    IF s = <<>> THEN 0
    ELSE 1 + ForestSize(comment_map, comment_map[Head(s)].children)
           + ForestSize(comment_map, Tail(s))

Ranking == resp[Reader].status = "leaderboard"

\* the events of user u that are at most 24 hours old at hour now
InWindow(u, now) ==
    {e \in db.KarmaEvent : e.user = u /\ e.created_at <= now /\ now - e.created_at <= 24}

\* the users the response lists
Listed == {resp[Reader].results[i].user_id : i \in DOMAIN resp[Reader].results}

(***************************************************************************)
(* C13: every entry of a leaderboard response carries the sum of the       *)
(* amounts of the listed user's karma events of the 24 hours before the    *)
(* call, taken from the ledger as it is at the call: older events (25      *)
(* hours old) add nothing, newer ones (23 hours old) add their full        *)
(* amount, and a user without an event in the window is not listed.        *)
(***************************************************************************)
C13_WindowedKarma ==
    Ranking =>
        /\ \A i \in DOMAIN resp[Reader].results :
              LET entry == resp[Reader].results[i]
              IN /\ InWindow(entry.user_id, resp[Reader].at) # {}
                 /\ entry.karma = SumAmounts(InWindow(entry.user_id, resp[Reader].at))
        /\ \A u \in Players : InWindow(u, resp[Reader].at) = {} => u \notin Listed

\* a call at hour 25 lists with karma 1 a player who has a 25 hours old event
\* of 5 (and a 23 hours old event of 1), while some player has no karma event
C13_Witness ==
    /\ Ranking
    /\ resp[Reader].at = 25
    /\ \E i \in DOMAIN resp[Reader].results :
          /\ resp[Reader].results[i].karma = 1
          /\ \E e \in db.KarmaEvent :
                /\ e.user = resp[Reader].results[i].user_id
                /\ e.created_at = 0 /\ e.amount = 5
    /\ \E u \in Players : \A e \in db.KarmaEvent : e.user # u

(***************************************************************************)
(* C14: a leaderboard response has at most 5 entries, lists no user twice, *)
(* is ordered by non-increasing karma, and numbers its entries 1..N by     *)
(* position; a user with karma in the window who is not listed was cut by  *)
(* the limit and has no more karma than the last entry.                    *)
(***************************************************************************)
C14_TopFive ==
    Ranking =>
        LET results == resp[Reader].results
            n == Len(results)
        IN /\ n <= 5
           /\ \A i, j \in 1..n : results[i].user_id = results[j].user_id => i = j
           /\ \A i \in 1..n : results[i].rank = i
           /\ \A i \in 1..n : \A j \in 1..n : i < j => results[i].karma >= results[j].karma
           /\ \A u \in Players \ Listed :
                 InWindow(u, resp[Reader].at) # {} =>
                     /\ n = 5
                     /\ SumAmounts(InWindow(u, resp[Reader].at)) <= results[n].karma

\* six players have karma in the window: five are listed, in two different
\* karma values, and one is left out
C14_Witness ==
    /\ Ranking
    /\ Len(resp[Reader].results) = 5
    /\ resp[Reader].results[1].karma > resp[Reader].results[5].karma
    /\ \E u \in Players \ Listed : InWindow(u, resp[Reader].at) # {}

(***************************************************************************)
(* Properties of the toggle's response.                                    *)
(***************************************************************************)
(***************************************************************************)
(* C15: every successful (200) toggle response has a status among liked,   *)
(* unliked and already_liked, repeats the request's target_type and        *)
(* target_id, and has is_liked true exactly when the store holds a Like    *)
(* row of the requesting user on the target once the toggle has answered.  *)
(* This holds for every toggle, in particular for one that runs with no    *)
(* concurrent request of the same user on the same target.                 *)
(***************************************************************************)
C15_ResponseReportsState ==
    [][\A p \in Procs :
        Answers(p) /\ resp'[p].code = 200 =>
            /\ resp'[p].status \in {"liked", "unliked", "already_liked"}
            /\ resp'[p].target_type = req[p].target_type
            /\ resp'[p].target_id = req[p].target_id
            /\ resp'[p].is_liked <=>
                  \E l \in db'.Like : /\ l.user = req[p].user
                                      /\ l.target_type = req[p].target_type
                                      /\ l.target_id = req[p].target_id]_vars

\* the only request received so far has been answered 'liked', is_liked true,
\* and the store holds one Like row
C15_Witness ==
    /\ requests = 1
    /\ Cardinality(db.Like) = 1
    /\ \E p \in Procs : resp[p].status = "liked" /\ resp[p].is_liked

(***************************************************************************)
(* Properties of the stored paths.                                         *)
(***************************************************************************)
\* the number of '.' in a string
Dots(s) == Cardinality({i \in DOMAIN s : s[i] = "."})

\* s is the decimal string of a positive integer: digits only, no leading 0
IsDecimal(s) ==
    /\ s # <<>>
    /\ \A i \in DOMAIN s : s[i] # "."
    /\ s[1] # "0"

RECURSIVE DecimalValue(_)
\* the integer a string of digits denotes
DecimalValue(s) ==
    IF s = <<>> THEN 0
    ELSE 10 * DecimalValue(SubSeq(s, 1, Len(s) - 1)) + (Ord(s[Len(s)]) - 48)

C17_ChildExtendsParent ==
    Quiescent =>
        \A c \in DOMAIN db.Comment :
            LET p == db.Comment[c].parent
            IN p # 0 =>
                  /\ db.Comment[c].path = db.Comment[p].path \o <<".">> \o Str(c)
                  /\ db.Comment[c].depth = db.Comment[p].depth + 1

(***************************************************************************)
(* C18: a post-detail fetch never reads a comment row that still has the   *)
(* empty default path: it reads a comment with its final path or not at    *)
(* all, also while the comment's creation is running.                      *)
(***************************************************************************)
C18_NoEmptyPathRead ==
    Fetched =>
        \A i \in DOMAIN resp[Reader].order :
            db.Comment[resp[Reader].order[i]].path # EmptyPath

RECURSIVE AncestorsOf(_, _)
\* the parent of comment c, the parent's parent, and so on
AncestorsOf(d, c) ==
    IF d.Comment[c].parent = 0 \/ d.Comment[c].parent \notin DOMAIN d.Comment THEN {}
    ELSE {d.Comment[c].parent} \cup AncestorsOf(d, d.Comment[c].parent)

\* the positions at which the rows of a set of comments were read
PositionsOf(order, ids) == {i \in DOMAIN order : order[i] \in ids}

RECURSIVE SegmentsFrom(_, _, _)
\* the integers between the dots of s from position i on, cur being the
\* value of the digits read since the last dot
SegmentsFrom(s, i, cur) ==
    IF i > Len(s) THEN <<cur>>
    ELSE IF s[i] = "." THEN <<cur>> \o SegmentsFrom(s, i + 1, 0)
    ELSE SegmentsFrom(s, i + 1, 10 * cur + (Ord(s[i]) - 48))

\* a path as the sequence of its dot-separated integers
Segments(s) == SegmentsFrom(s, 1, 0)

\* a comes before b, comparing integer by integer, a proper prefix first
SegmentsLess(a, b) ==
    \E i \in 1..Len(b) :
        /\ \A j \in 1..(i - 1) : j <= Len(a) /\ a[j] = b[j]
        /\ (i > Len(a) \/ a[i] < b[i])

Ascending(s) == \A i, j \in DOMAIN s : i < j => s[i] < s[j]

(***************************************************************************)
(* C20: the order in which the post-detail fetch reads the comments,       *)
(* ascending by the stored path string, is the order of the paths compared *)
(* as sequences of dot-separated integers; the roots and the children of   *)
(* every node are listed in ascending id order.                            *)
(***************************************************************************)
C20_StringOrderIsSegmentOrder ==
    Fetched /\ Quiescent =>
        LET order == resp[Reader].order
        IN /\ \A i, j \in DOMAIN order :
                 i < j => SegmentsLess(Segments(db.Comment[order[i]].path),
                                       Segments(db.Comment[order[j]].path))
           /\ Ascending(resp[Reader].comments)
           /\ \A c \in DOMAIN resp[Reader].comment_map :
                 Ascending(resp[Reader].comment_map[c].children)

(***************************************************************************)
(* Properties of the tree reconstruction.                                  *)
(***************************************************************************)
\* the rows read before the i-th one
ReadBefore(order, i) == {order[j] : j \in 1..(i - 1)}

(***************************************************************************)
(* C21: a fetched comment whose parent's node is not in comment_map when   *)
(* the comment is processed is appended to the root list, so every fetched *)
(* comment is a node of the returned forest.                               *)
(***************************************************************************)
C21_OrphansBecomeRoots ==
    Fetched =>
        LET order == resp[Reader].order
        IN /\ \A i \in DOMAIN order :
                 /\ db.Comment[order[i]].parent # 0
                 /\ db.Comment[order[i]].parent \notin ReadBefore(order, i)
                 => order[i] \in SeqElems(resp[Reader].comments)
           /\ ForestNodes(resp[Reader].comment_map, resp[Reader].comments)
                 = SeqElems(order)

(***************************************************************************)
(* Properties of concurrent likes of one target.                           *)
(***************************************************************************)
\* every request of the crowd has been answered
CrowdSettled == Quiescent /\ \A p \in Procs : resp[p] # NoResp

\* the handlers whose like was answered 'liked'
CrowdLiked == {p \in Procs : resp[p].status = "liked"}

(***************************************************************************)
(* C22: when distinct users like, concurrently, a target none of them      *)
(* liked, every request the store did not fail is answered 'liked', and    *)
(* once all are answered the target's like_count (0 before) and the number *)
(* of its Like rows both equal the number of these likes: no increment is  *)
(* lost, in any interleaving.                                              *)
(***************************************************************************)
C22_NoLostIncrement ==
    CrowdSettled =>
        \A tt \in TargetTypes :
            (\E p \in Procs : req[p].target_type = tt \/ resp[p].target_type = tt) =>
                /\ \A p \in Procs :
                      resp[p].status = "liked" \/ resp[p].exc = "OperationalError"
                /\ LikeCount(db, tt, 1) = Cardinality(CrowdLiked)
                /\ Cardinality(LikesOn(db, tt, 1)) = Cardinality(CrowdLiked)

\* all likes of the crowd went through: as many Like rows, and a counter as
\* high, as there are handlers
C22_Witness ==
    /\ CrowdSettled
    /\ CrowdLiked = Procs
    /\ \E tt \in TargetTypes :
          /\ LikeCount(db, tt, 1) = NumProcs
          /\ Cardinality(LikesOn(db, tt, 1)) = NumProcs


(***************************************************************************)
(* Properties of the whole feed.                                           *)
(***************************************************************************)
\* the comments of the store whose creation has completed
Completed == DOMAIN db.Comment \ InCreation

(***************************************************************************)
(* C23: no step of any operation (comment creation, like toggle,           *)
(* leaderboard read, post-detail fetch, counter reconciliation) changes    *)
(* the path, depth, post or parent of a comment whose creation has         *)
(* completed, and the comment stays in the store.                          *)
(***************************************************************************)
C23_CompletedCommentIsFixed ==
    [][\A c \in Completed :
          /\ c \in DOMAIN db'.Comment
          /\ db'.Comment[c].path = db.Comment[c].path
          /\ db'.Comment[c].depth = db.Comment[c].depth
          /\ db'.Comment[c].post = db.Comment[c].post
          /\ db'.Comment[c].parent = db.Comment[c].parent]_vars

\* a reply created in this run is complete, a like has been counted on the
\* comment it answers and a reconciliation has run to its end
C23_Witness ==
    /\ \E c \in Completed : db.Comment[c].parent = 1 /\ db.Comment[c].path # EmptyPath
    /\ db.Comment[1].like_count = 1
    /\ \E p \in Procs : resp[p] = Seeded


(***************************************************************************)
(* Properties of the post-detail view on liked threads.                    *)
(***************************************************************************)
\* user u has a Like row for comment c
LikesComment(u, c) ==
    \E l \in db.Like : l.user = u /\ l.target_type = "comment" /\ l.target_id = c

(***************************************************************************)
(* C24: in the forest of a post-detail response every node's is_liked is   *)
(* true exactly when the store holds the Like row (viewer, 'comment',      *)
(* node id); get_object run for the anonymous viewer flags no node; and    *)
(* the flags cost at most one query beyond those for the post and its      *)
(* comments, however many nodes there are.                                 *)
(***************************************************************************)
C24_FlagsMatchLikeRows ==
    /\ Fetched =>
         LET r == resp[Reader]
         IN /\ \A c \in DOMAIN r.comment_map :
                  r.comment_map[c].is_liked <=> LikesComment(r.viewer, c)
            /\ r.queries <= 3
    /\ \A post_id \in DOMAIN db.Post : \A order \in OrderByPath(db, post_id) :
         LET r == Detail(db, Anonymous, post_id, order)
         IN /\ \A c \in DOMAIN r.comment_map : ~r.comment_map[c].is_liked
            /\ r.queries <= 2

\* the viewer has liked one comment of the fetched thread and not another,
\* which somebody else has liked
C24_Witness ==
    /\ Fetched
    /\ \E c, e \in DOMAIN resp[Reader].comment_map :
          /\ resp[Reader].comment_map[c].is_liked
          /\ ~resp[Reader].comment_map[e].is_liked
          /\ \E u \in Users : LikesComment(u, e)
          /\ resp[Reader].comment_map[e].depth > 0


Boards(now) ==
    {Board(now, Ranked(Limit(rows))) :
        rows \in OrdersByKarma(Grouped(Recent(db, Cutoff(now))))}

(***************************************************************************)
(* C26: for a fixed karma ledger and a fixed call time, any two            *)
(* leaderboard calls return the same users in the same positions with the  *)
(* same ranks, also when several users have equal karma: the response of   *)
(* a call is the only one a second call at the same time can give.         *)
(***************************************************************************)
C26_StableTies ==
    resp[Reader].status = "leaderboard" =>
        \A second \in Boards(resp[Reader].at) : second = resp[Reader]


(***************************************************************************)
(* Properties of the reconciliation loop.                                  *)
(***************************************************************************)
\* a run of the loop is between its first count and its last save
Reconciling == \E p \in Procs : pc[p] # "idle"

\* a run of the loop has ended and none is going on
Reconciled == ~Reconciling /\ \E p \in Procs : resp[p] = Seeded

\* every counter is the number of the target's Like rows
CountersExact(d) ==
    /\ \A i \in DOMAIN d.Post :
          d.Post[i].like_count =
              Cardinality({l \in d.Like : l.target_type = "post" /\ l.target_id = i})
    /\ \A i \in DOMAIN d.Comment :
          d.Comment[i].like_count =
              Cardinality({l \in d.Like : l.target_type = "comment" /\ l.target_id = i})

(***************************************************************************)
(* C27: once a run of the recompute loop has ended, the like_count of      *)
(* every post and comment is the number of the target's Like rows,         *)
(* whatever it was before; no step of the loop changes a Like row or a     *)
(* karma event; and no step of a run that starts after another has ended   *)
(* changes the store at all.                                               *)
(***************************************************************************)
C27_ReconcileIsExact ==
    [][/\ db'.Like = db.Like
       /\ db'.KarmaEvent = db.KarmaEvent
       /\ Reconciled' => CountersExact(db')
       /\ CountersExact(db) => db' = db]_vars

\* two runs have ended on a store in which both users like the post and
\* nobody likes the comment
C27_Witness ==
    /\ Reconciled
    /\ requests >= 2
    /\ \A p \in Procs : resp[p] = Seeded
    /\ db.Post[1].like_count = 2
    /\ db.Comment[1].like_count = 0


(***************************************************************************)
(* Further properties of the like ledger.                                  *)
(***************************************************************************)
\* the Like rows on a target that were not made by the target's author
LikesByOthers(d, tt, tid) ==
    {l \in LikesOn(d, tt, tid) : l.user # TargetAuthor(d, tt, tid)}

(***************************************************************************)
(* C28: while no toggle is in flight, every target has as many karma       *)
(* events naming it as Like rows made by users other than its author; and  *)
(* after the author of a target has liked it and toggled again, the karma  *)
(* events naming the target are those it had before the author's like.     *)
(***************************************************************************)
C28_KarmaMatchesOthersLikes ==
    /\ Quiescent =>
         \A t \in Targets :
            Cardinality(KarmaOn(db, t[1], t[2])) =
                Cardinality(LikesByOthers(db, t[1], t[2]))
    /\ (pair.stage = 4
        /\ pair.user = TargetAuthor(db, pair.target_type, pair.target_id)) =>
         KarmaOn(db, pair.target_type, pair.target_id) =
             {k \in pair.karma : k.related_type = pair.target_type
                                 /\ k.related_id = pair.target_id}

\* the author of a target that has earned a karma event from another user's
\* like has liked the target and then toggled again
C28_Witness ==
    /\ Quiescent
    /\ pair.stage = 4
    /\ pair.user = TargetAuthor(db, pair.target_type, pair.target_id)
    /\ KarmaOn(db, pair.target_type, pair.target_id) # {}


\* handler p has answered from the unlike branch
AnsweredUnlike(p) ==
    pc[p] = "idle" /\ (resp[p].status = "unliked" \/ resp[p].exc \in {"TypeError", "IntegrityError"})

(***************************************************************************)
(* C29: when every one of the concurrent toggles of the user who likes a   *)
(* target has found the Like row and answered from the unlike branch, the  *)
(* target's like_count is one below its value before them (it was 1, and  *)
(* every other counter 0), and no like_count is negative in any state.     *)
(***************************************************************************)
C29_UnlikeAppliedOnce ==
    /\ (\A p \in Procs : AnsweredUnlike(p)) =>
          \A t \in Targets : LikeCount(db, t[1], t[2]) = 0
    /\ \A t \in Targets : LikeCount(db, t[1], t[2]) >= 0


\* the rows that one of two tables has and the other has not
Changed(before, after) == (before \ after) \cup (after \ before)

(***************************************************************************)
(* C30: a step that changes the store is the commit of a toggle of some    *)
(* user U on some target X, and it changes only Like rows of (U, X), the   *)
(* like_count of X and karma events that name X: Like rows of other users  *)
(* or targets, the like_count of every other post and comment, karma       *)
(* events of other targets, and the path, depth, post, parent and author   *)
(* of every comment stay as they are.                                      *)
(***************************************************************************)
C30_ToggleFrame ==
    [][db' # db =>
         \E p \in Procs :
            /\ txn.owner = p
            /\ LET u == req[p].user
                   tt == req[p].target_type
                   tid == req[p].target_id
               IN /\ \A l \in Changed(db.Like, db'.Like) :
                        l.user = u /\ l.target_type = tt /\ l.target_id = tid
                  /\ \A k \in Changed(db.KarmaEvent, db'.KarmaEvent) :
                        k.related_type = tt /\ k.related_id = tid
                  /\ \A t \in Targets :
                        t # <<tt, tid>> =>
                            LikeCount(db', t[1], t[2]) = LikeCount(db, t[1], t[2])
                  /\ DOMAIN db'.Post = DOMAIN db.Post
                  /\ DOMAIN db'.Comment = DOMAIN db.Comment
                  /\ \A i \in DOMAIN db.Post : db'.Post[i].author = db.Post[i].author
                  /\ \A c \in DOMAIN db.Comment :
                        /\ db'.Comment[c].path = db.Comment[c].path
                        /\ db'.Comment[c].depth = db.Comment[c].depth
                        /\ db'.Comment[c].post = db.Comment[c].post
                        /\ db'.Comment[c].parent = db.Comment[c].parent
                        /\ db'.Comment[c].author = db.Comment[c].author]_vars

\* a toggle has been committed on each of the two targets, by different
\* users, and each has left its own row, counter and karma event
C30_Witness ==
    /\ Quiescent
    /\ \E u, v \in Users :
          /\ u # v
          /\ LikesOf(db, u, "post", 1) # {}
          /\ LikesOf(db, v, "comment", 1) # {}
    /\ LikeCount(db, "post", 1) = 1
    /\ LikeCount(db, "comment", 1) = 1
    /\ KarmaOn(db, "post", 1) # {}
    /\ KarmaOn(db, "comment", 1) # {}

====
